---- MODULE Spec2Model ----
(***************************************************************************)
(* A model of matomo-tracker-react-native: the MatomoTracker class         *)
(* (src/src/MatomoTracker.js) and the useMatomo hook (src/src/useMatomo.js *)
(* and its useMemo variants).                                              *)
(*                                                                         *)
(* JavaScript values are records [t, s, n] (type tag, string payload,      *)
(* number payload); plain objects are sequences of [k, v] entries in       *)
(* insertion order; URL strings, whose last character the code inspects,   *)
(* are sequences of one-character strings.                                 *)
(***************************************************************************)
EXTENDS Integers, Sequences, FiniteSets, TLC

VARIABLES trackers, console, requests, lastCall, ctx, renders, cells, memo, hooks

vars == <<trackers, console, requests, lastCall, ctx, renders, cells, memo, hooks>>

(***************************************************************************)
(* Bounds.                                                                 *)
(***************************************************************************)
\* the number of requests handed to fetch in one behaviour
MaxRequests == 1
\* the number of renders of the component that uses the hook
MaxRenders == 3
\* the number of tracker instances a provider may be given
NumInstances == 2
\* the largest integer-like property key of an object
MaxIndex == 99
\* the runs of initialize on one tracker, the constructor's included
MaxInits == 2

Instances == 1..NumInstances

(***************************************************************************)
(* JavaScript values.                                                      *)
(***************************************************************************)
Undef == [t |-> "undefined", s |-> "", n |-> 0]
Null == [t |-> "null", s |-> "", n |-> 0]
Str(x) == [t |-> "string", s |-> x, n |-> 0]
Num(k) == [t |-> "number", s |-> "", n |-> k]
Bool(b) == [t |-> "boolean", s |-> "", n |-> IF b THEN 1 ELSE 0]

\* ToBoolean: undefined, null, "", 0 and false are falsy
Truthy(v) ==
  CASE v.t = "string" -> v.s # ""
    [] v.t = "number" -> v.n # 0
    [] v.t = "boolean" -> v.n = 1
    [] OTHER -> FALSE

\* the decimal digits of a small non-negative integer
DigitStr(k) ==
  CASE k = 0 -> "0" [] k = 1 -> "1" [] k = 2 -> "2" [] k = 3 -> "3"
    [] k = 4 -> "4" [] k = 5 -> "5" [] k = 6 -> "6" [] k = 7 -> "7"
    [] k = 8 -> "8" [] k = 9 -> "9"

\* String(v), as the template literal and URLSearchParams apply it
ToStr(v) ==
  CASE v.t = "string" -> v.s
    [] v.t = "number" -> DigitStr(v.n)
    [] v.t = "boolean" -> (IF v.n = 1 THEN "true" ELSE "false")
    [] v.t = "null" -> "null"
    [] OTHER -> "undefined"

RECURSIVE IndexStr(_)
\* the canonical decimal string of a non-negative integer
IndexStr(n) ==
  IF n < 10 THEN DigitStr(n) ELSE IndexStr(n \div 10) \o DigitStr(n % 10)

\* the integer-like property keys ("0", "1", ..., without sign or leading 0)
IndexKeys == {IndexStr(n) : n \in 0..MaxIndex}

IsIndex(k) == k \in IndexKeys

\* the integer an integer-like key stands for
ArrayIndex(k) == CHOOSE n \in 0..MaxIndex : IndexStr(n) = k

(***************************************************************************)
(* Plain objects: one entry per key, in the order in which JavaScript      *)
(* enumerates own properties: the integer-like keys first, in ascending    *)
(* order, then the other keys in the order of their insertion.             *)
(***************************************************************************)
Entry(k, v) == [k |-> k, v |-> v]

Has(o, k) == \E i \in 1..Len(o) : o[i].k = k

\* o[k], undefined for a missing key
Get(o, k) ==
  IF Has(o, k) THEN o[CHOOSE i \in 1..Len(o) : o[i].k = k].v ELSE Undef

\* entry e is enumerated before a new key k
Precedes(e, k) ==
  IF IsIndex(k) THEN IsIndex(e.k) /\ ArrayIndex(e.k) < ArrayIndex(k) ELSE TRUE

\* o[k] = v: an existing key keeps its place and takes the new value; a new
\* integer-like key goes among the integer-like keys, any other new key last
Put(o, k, v) ==
  IF Has(o, k)
    THEN [i \in 1..Len(o) |-> IF o[i].k = k THEN Entry(k, v) ELSE o[i]]
    ELSE SelectSeq(o, LAMBDA e : Precedes(e, k))
           \o <<Entry(k, v)>>
           \o SelectSeq(o, LAMBDA e : ~Precedes(e, k))

\* delete o[k]
Delete(o, k) == SelectSeq(o, LAMBDA e : e.k # k)

RECURSIVE Spread(_, _)
\* { ...a, ...b }
Spread(a, b) ==
  IF b = <<>> THEN a ELSE Spread(Put(a, Head(b).k, Head(b).v), Tail(b))

\* an argument that is an object, undefined or null
ObjVal(o) == [t |-> "object", o |-> o]
NoObj == [t |-> "undefined", o |-> <<>>]
NullObj == [t |-> "null", o |-> <<>>]

(***************************************************************************)
(* URL strings.                                                            *)
(***************************************************************************)
Url(c) == [t |-> "string", c |-> c]
NoUrl == [t |-> "undefined", c |-> <<>>]
NullUrl == [t |-> "null", c |-> <<>>]

UrlTruthy(u) == u.t = "string" /\ u.c # <<>>

MatomoPhp == <<"m", "a", "t", "o", "m", "o", ".", "p", "h", "p">>

(***************************************************************************)
(* MatomoTracker: construction.                                            *)
(***************************************************************************)
\* the options object handed to the constructor
Options(urlBase, trackerUrl, siteId, userId, disabled, log) ==
  [urlBase |-> urlBase, trackerUrl |-> trackerUrl, siteId |-> siteId,
   userId |-> userId, disabled |-> disabled, log |-> log]

NoOptions == Options(NoUrl, NoUrl, Undef, Undef, Undef, Undef)

\* a tracker object: status is "none" before `new`, "live" once the
\* constructor returned and "failed" when it threw; opts remembers the
\* options the constructor was given and inits counts the runs of
\* initialize; the other fields are the properties of `this`
NoTracker ==
  [trackerUrl |-> NoUrl, siteId |-> Undef, userId |-> Undef,
   disabled |-> Undef, log |-> Undef, status |-> "none",
   err |-> "", opts |-> NoOptions, inits |-> 0]

\* a default parameter value: taken when the argument is undefined
DefaultTo(v, d) == IF v.t = "undefined" THEN d ELSE v

\* a normalization that appends '/' whatever urlBase ends with
NormalizedUrlBaseAlways(urlBase) == Append(urlBase, "/")

\* urlBase[urlBase.length - 1] !== '/' ? `${urlBase}/` : urlBase
NormalizedUrlBase(urlBase) ==
  IF urlBase = <<>> \/ urlBase[Len(urlBase)] # "/"
    THEN Append(urlBase, "/")
    ELSE urlBase

\* trackerUrl ?? `${normalizedUrlBase}matomo.php`
ResolveTrackerUrl(trackerUrl, normalizedUrlBase) ==
  IF trackerUrl.t \in {"undefined", "null"}
    THEN Url(normalizedUrlBase \o MatomoPhp)
    ELSE trackerUrl

\* initialize(): urlBase[urlBase.length - 1] throws when urlBase is undefined
\* or null, before anything is set, and the message names which of the two
\* it is; "" for no error
InitializeError(opts) ==
  IF opts.urlBase.t \in {"undefined", "null"}
    THEN "TypeError: Cannot read properties of " \o opts.urlBase.t \o " (reading 'length')"
    ELSE ""

\* initialize(): the properties set on `this`
Initialize(this, opts) ==
  LET disabled == DefaultTo(opts.disabled, Bool(FALSE))
      log == DefaultTo(opts.log, Bool(FALSE))
      normalizedUrlBase == NormalizedUrlBase(opts.urlBase.c)
      flagged == [this EXCEPT !.disabled = disabled, !.log = log]
  IN  IF InitializeError(opts) # "" THEN this
      ELSE IF Truthy(disabled)
        THEN flagged
        ELSE [flagged EXCEPT
                !.trackerUrl = ResolveTrackerUrl(opts.trackerUrl, normalizedUrlBase),
                !.siteId = opts.siteId,
                !.userId = IF Truthy(opts.userId) THEN opts.userId ELSE @]

\* initialize(): what it writes to the console
InitializeLog(opts) ==
  LET disabled == DefaultTo(opts.disabled, Bool(FALSE))
      log == DefaultTo(opts.log, Bool(FALSE))
  IN  IF InitializeError(opts) # "" \/ ~Truthy(log) THEN <<>>
      ELSE IF Truthy(disabled) THEN <<"Matomo tracking is disabled.">>
      ELSE <<"Matomo tracking is enabled for:">>

\* the constructor's checks: the message of the error thrown, "" for none
ConstructorError(opts) ==
  IF ~UrlTruthy(opts.urlBase) THEN "urlBase is required for Matomo tracking."
  ELSE IF ~Truthy(opts.siteId) THEN "siteId is required for Matomo tracking."
  ELSE ""

\* a variant that initializes first and validates afterwards
ConstructorInitFirst(this, opts) ==
  LET err == ConstructorError(opts)
      made == Initialize(this, opts)
  IN  [this |-> [made EXCEPT !.status = IF err = "" THEN "live" ELSE "failed",
                             !.err = err, !.opts = opts, !.inits = 1],
       out |-> InitializeLog(opts)]

\* new MatomoTracker(opts): the object left behind and the console output
Constructor(this, opts) ==
  LET err == ConstructorError(opts)
  IN  IF err # ""
        THEN [this |-> [this EXCEPT !.status = "failed", !.err = err, !.opts = opts],
              out |-> <<>>]
        ELSE [this |-> [Initialize(this, opts) EXCEPT !.status = "live", !.opts = opts,
                                                      !.inits = 1],
              out |-> InitializeLog(opts)]

\* a line of console output of tracker i
Line(i, msg) == [msg |-> msg, inst |-> i]

Lines(i, msgs) == [j \in 1..Len(msgs) |-> Line(i, msgs[j])]

(***************************************************************************)
(* MatomoTracker: the tracking methods.  Each takes the arguments of the   *)
(* call, [given, p, ui]: whether an argument object was passed at all, its *)
(* named parameters other than userInfo, and its userInfo (for track: the  *)
(* data object).  Each yields [threw, err, data]: the error it throws, or  *)
(* the data object it hands to track.                                      *)
(***************************************************************************)
Args(p, ui) == [p |-> p, ui |-> ui, given |-> TRUE]
NoArgs == [p |-> <<>>, ui |-> NoObj, given |-> FALSE]

Throw(msg) == [err |-> msg, threw |-> TRUE, data |-> NoObj]
ToTrack(data) == [err |-> "", threw |-> FALSE, data |-> data]

\* `userInfo = {}`: the default applies to an undefined userInfo
UserInfoOf(args) == IF args.ui.t = "object" THEN args.ui.o ELSE <<>>

\* destructuring the parameters of an argument that was not passed
DestructureError == "TypeError: Cannot destructure property of undefined"

\* a trackAction without the check of name
TrackActionUnchecked(name, userInfo) ==
  ToTrack(ObjVal(Spread(<<Entry("action_name", name)>>, userInfo)))

TrackAction(name, userInfo) ==
  IF ~Truthy(name)
    THEN Throw("Error: The \"name\" parameter is required for tracking an action.")
    ELSE ToTrack(ObjVal(Spread(<<Entry("action_name", name)>>, userInfo)))

TrackAppStart(userInfo) == TrackAction(Str("App / start"), userInfo)

TrackScreenView(name, userInfo) ==
  IF ~Truthy(name)
    THEN Throw("Error: The \"name\" parameter is required for tracking a screen view.")
    ELSE TrackAction(Str("Screen / " \o ToStr(name)), userInfo)

TrackEvent(category, action, name, value, campaign, userInfo) ==
  IF ~Truthy(category)
    THEN Throw("Error: The \"category\" parameter is required for tracking an event.")
  ELSE IF ~Truthy(action)
    THEN Throw("Error: The \"action\" parameter is required for tracking an event.")
  ELSE ToTrack(ObjVal(Spread(<<Entry("e_c", category), Entry("e_a", action),
                               Entry("e_n", name), Entry("e_v", value),
                               Entry("mtm_campaign", campaign)>>, userInfo)))

\* a trackSiteSearch that leaves a falsy count out
TrackSiteSearchFalsyCount(keyword, category, count, userInfo) ==
  IF ~Truthy(keyword)
    THEN Throw("Error: The \"keyword\" parameter is required for tracking a site search.")
    ELSE ToTrack(ObjVal(Spread(
           <<Entry("search", keyword), Entry("search_cat", category)>>
             \o (IF Truthy(count) THEN <<Entry("search_count", count)>> ELSE <<>>),
           userInfo)))

TrackSiteSearch(keyword, category, count, userInfo) ==
  IF ~Truthy(keyword)
    THEN Throw("Error: The \"keyword\" parameter is required for tracking a site search.")
    ELSE ToTrack(ObjVal(Spread(<<Entry("search", keyword), Entry("search_cat", category),
                                 Entry("search_count", count)>>, userInfo)))

TrackLink(link, userInfo) ==
  IF ~Truthy(link)
    THEN Throw("Error: The \"link\" parameter is required for tracking a link click.")
    ELSE ToTrack(ObjVal(Spread(<<Entry("link", link), Entry("url", link)>>, userInfo)))

TrackDownload(download, userInfo) ==
  IF ~Truthy(download)
    THEN Throw("Error: The \"download\" parameter is required for tracking a file download.")
    ELSE ToTrack(ObjVal(Spread(<<Entry("download", download), Entry("url", download)>>,
                               userInfo)))

Methods ==
  {"trackAppStart", "trackScreenView", "trackAction", "trackEvent",
   "trackSiteSearch", "trackLink", "trackDownload", "track"}

\* the call method(args) up to the point where it throws or calls track
Invoke(method, args) ==
  LET p == args.p
      userInfo == UserInfoOf(args)
  IN  CASE method = "track" -> ToTrack(args.ui)
        [] method = "trackAppStart" -> TrackAppStart(userInfo)
        [] ~args.given -> Throw(DestructureError)
        [] method = "trackScreenView" -> TrackScreenView(Get(p, "name"), userInfo)
        [] method = "trackAction" -> TrackAction(Get(p, "name"), userInfo)
        [] method = "trackEvent" ->
             TrackEvent(Get(p, "category"), Get(p, "action"), Get(p, "name"),
                        Get(p, "value"), Get(p, "campaign"), userInfo)
        [] method = "trackSiteSearch" ->
             TrackSiteSearch(Get(p, "keyword"), Get(p, "category"), Get(p, "count"),
                             userInfo)
        [] method = "trackLink" -> TrackLink(Get(p, "link"), userInfo)
        [] method = "trackDownload" -> TrackDownload(Get(p, "download"), userInfo)

(***************************************************************************)
(* MatomoTracker.track.                                                    *)
(***************************************************************************)
\* if (this.disabled) return; if (!data) return;
TrackReturnsEarly(this, data) == Truthy(this.disabled) \/ data.t # "object"

\* a track that leaves lang in the data
KeepLang(data) == data

\* delete data.lang
WithoutLang(data) == Delete(data, "lang")

\* an object literal that spreads the data first, so that the constants win
BodyObjectDataFirst(this, data) ==
  Spread(data,
         <<Entry("idsite", this.siteId), Entry("rec", Num(1)), Entry("apiv", Num(1))>>
           \o (IF Truthy(this.userId) THEN <<Entry("uid", this.userId)>> ELSE <<>>)
           \o <<Entry("send_image", Num(0))>>)

\* { idsite, rec: 1, apiv: 1, ...(userId ? { uid } : {}), send_image: 0, ...data }
BodyObject(this, data) ==
  Spread(Put(Spread(<<Entry("idsite", this.siteId), Entry("rec", Num(1)),
                      Entry("apiv", Num(1))>>,
                    IF Truthy(this.userId) THEN <<Entry("uid", this.userId)>> ELSE <<>>),
             "send_image", Num(0)),
         data)

\* new URLSearchParams(obj): the list of name-value pairs, each value turned
\* into a string; toString() joins them as name=value with '&'
URLSearchParams(obj) == [i \in 1..Len(obj) |-> [k |-> obj[i].k, v |-> ToStr(obj[i].v)]]

\* the second argument of fetch
FetchObj(this, data) ==
  LET lang == Get(data, "lang")
      rest == WithoutLang(data)
  IN  [method |-> "POST",
       headers |-> [Accept |-> "application/json",
                    AcceptLanguage |-> lang,
                    ContentType |-> "application/x-www-form-urlencoded; charset=UTF-8"],
       body |-> URLSearchParams(BodyObject(this, rest))]

(***************************************************************************)
(* The promise chain fetch(...).then(...).catch(...).                      *)
(***************************************************************************)
Resp(ok, text) == [ok |-> ok, text |-> text, kind |-> "response"]
Err(text) == [ok |-> FALSE, text |-> text, kind |-> "error"]
NoValue == [ok |-> FALSE, text |-> "", kind |-> "none"]

Pending == [v |-> NoValue, state |-> "pending"]
Fulfilled(v) == [v |-> v, state |-> "fulfilled"]
Rejected(v) == [v |-> v, state |-> "rejected"]

\* what the transport can do with a request: an ok response, a response
\* that is not ok, or a network failure
FetchOutcomes ==
  {Fulfilled(Resp(TRUE, "OK")), Fulfilled(Resp(FALSE, "Internal Server Error")),
   Rejected(Err("Network request failed"))}

\* the result of running a handler: it returns v or throws v, after
\* writing out to the console
Returns(v, out) == [v |-> v, out |-> out, threw |-> FALSE]
Throws(v, out) == [v |-> v, out |-> out, threw |-> TRUE]

\* the .then callback
ThenHandler(this, response) ==
  IF ~response.ok
    THEN Throws(Err(response.text), <<>>)
    ELSE Returns(response,
                 IF Truthy(this.log) THEN <<"Matomo tracking is sent:">> ELSE <<>>)

\* a .catch callback that logs and throws the error again
CatchHandlerRethrows(this, error) ==
  Throws(error,
         (IF Truthy(this.log) THEN <<"Matomo tracking is not sent:">> ELSE <<>>)
           \o <<"Matomo tracking error:">>)

\* the .catch callback
CatchHandler(this, error) ==
  Returns(error,
          (IF Truthy(this.log) THEN <<"Matomo tracking is not sent:">> ELSE <<>>)
            \o <<"Matomo tracking error:">>)

\* promise.then(f) and promise.catch(f) for a settled promise: [state, v, out]
Settle(h, out) ==
  [v |-> h.v, out |-> out \o h.out, state |-> IF h.threw THEN "rejected" ELSE "fulfilled"]

Then(this, p) ==
  IF p.state = "fulfilled" THEN Settle(ThenHandler(this, p.v), p.out) ELSE p

Catch(this, p) ==
  IF p.state = "rejected" THEN Settle(CatchHandler(this, p.v), p.out) ELSE p

\* a settled promise as the callbacks find it: nothing written yet
Incoming(p) == [v |-> p.v, out |-> <<>>, state |-> p.state]

(***************************************************************************)
(* State.                                                                  *)
(***************************************************************************)
\* the latest call: the tracker and the method called, directly or through
\* which hook; the arguments the caller passed and the arguments that reached
\* the tracker; whether the caller passed the object of its previous call
\* again; whether the call threw, and what; what it returned; the request it
\* handed to fetch (0: none); the data object track was given, as the call
\* left it; and the caller's own object (the userInfo, for track the data),
\* as the call left it
Called(inst, via, method, passed, args, again, threw, err, ret, req, dataAfter, argAfter) ==
  [err |-> err, inst |-> inst, threw |-> threw, args |-> args, method |-> method,
   via |-> via, passed |-> passed, again |-> again, ret |-> ret,
   req |-> req, dataAfter |-> dataAfter, argAfter |-> argAfter]

NoCall == Called(0, "", "", NoArgs, NoArgs, FALSE, FALSE, "", "", 0, NoObj, NoObj)

NoFn == [inst |-> 0, id |-> 0]

FnNames ==
  {"trackAppStart", "trackScreenView", "trackAction", "trackEvent",
   "trackSiteSearch", "trackLink", "trackDownload"}

MemoNames == FnNames \cup {"trackContent", "updateUserInfo", "removeUserInfo"}

NoCell == [set |-> FALSE, fn |-> NoFn, deps |-> <<>>]

NoMemo == [value |-> [f \in MemoNames |-> NoFn], set |-> FALSE, deps |-> <<>>]

NoHooks ==
  [inst |-> 0, prevInst |-> 0,
   cb |-> [f \in FnNames |-> NoFn], cbPrev |-> [f \in FnNames |-> NoFn],
   mm |-> [f \in MemoNames |-> NoFn], mmPrev |-> [f \in MemoNames |-> NoFn]]

Init ==
  /\ trackers = [i \in Instances |-> NoTracker]
  /\ console = <<>>
  /\ requests = <<>>
  /\ lastCall = NoCall
  /\ ctx = 1
  /\ renders = 0
  /\ cells = [f \in FnNames |-> NoCell]
  /\ memo = NoMemo
  /\ hooks = NoHooks

hookVars == <<ctx, renders, cells, memo, hooks>>

(***************************************************************************)
(* Actions of the tracker.                                                 *)
(***************************************************************************)
\* new MatomoTracker(opts), for the tracker i
Construct(i, opts) ==
  /\ trackers[i].status = "none"
  /\ LET made == Constructor(trackers[i], opts)
     IN  /\ trackers' = [trackers EXCEPT ![i] = made.this]
         /\ console' = console \o Lines(i, made.out)
  /\ UNCHANGED <<requests, lastCall, hookVars>>

\* tracker.initialize(opts) on a tracker that has been constructed
Reinitialize(i, opts) ==
  /\ trackers[i].status = "live"
  /\ trackers[i].inits < MaxInits
  /\ LET err == InitializeError(opts)
     IN  IF err # ""
           THEN /\ lastCall' = Called(i, "direct", "initialize", NoArgs, NoArgs, FALSE, TRUE,
                                       err, "", 0, NoObj, NoObj)
                /\ UNCHANGED <<trackers, console>>
           ELSE /\ trackers' = [trackers EXCEPT
                                  ![i] = [Initialize(@, opts) EXCEPT !.inits = @ + 1]]
                /\ console' = console \o Lines(i, InitializeLog(opts))
                /\ lastCall' = Called(i, "direct", "initialize", NoArgs, NoArgs, FALSE,
                                       FALSE, "", "undefined", 0, NoObj, NoObj)
  /\ UNCHANGED <<requests, hookVars>>

\* the request fetch is called with
NewRequest(i, method, args, data) ==
  LET this == trackers[i]
      fetchObj == FetchObj(this, data)
  IN  [inst |-> i, method |-> fetchObj.method, headers |-> fetchObj.headers,
       body |-> fetchObj.body, fetched |-> Pending, chained |-> Pending,
       url |-> this.trackerUrl,
       call |-> [args |-> args, method |-> method], promise |-> Pending]

\* a variant in which the tracking methods hand the caller's userInfo itself
\* to track, so that track's delete acts on it
CallerObjectShared(method, passed, dataAfter) ==
  IF method = "track" \/ dataAfter.t # "object" \/ passed.ui.t # "object"
    THEN dataAfter
    ELSE ObjVal(WithoutLang(passed.ui.o))

\* the caller's own object after the call: track works on the object it is
\* given, the other methods spread the userInfo into a new object, and a
\* hook function that drops its arguments never hands the object on
CallerObject(method, passed, dataAfter) ==
  IF method = "track" THEN dataAfter ELSE passed.ui

\* a track that keeps a uid of the data as the tracker's userId
ThisAdoptingUid(this, data) ==
  IF Has(data, "uid") THEN [this EXCEPT !.userId = Get(data, "uid")] ELSE this

\* the tracker after track(data) built and dispatched a request: track reads
\* trackerUrl, siteId, userId and log and assigns to no property of `this`
ThisAfterTrack(this, data) == this

\* tracker i's method(args), reached directly or through a hook function
\* that was called with `passed`; max bounds the requests of one behaviour
CallWith(i, method, passed, args, via, again, max) ==
  /\ trackers[i].status = "live"
  /\ Len(requests) < max
  /\ LET this == trackers[i]
         made == Invoke(method, args)
         sent == ObjVal(WithoutLang(made.data.o))
     IN  IF made.threw
           THEN /\ lastCall' = Called(i, via, method, passed, args, again, TRUE, made.err,
                                       "", 0, NoObj, passed.ui)
                /\ UNCHANGED <<requests, trackers>>
         ELSE IF TrackReturnsEarly(this, made.data)
           THEN /\ lastCall' = Called(i, via, method, passed, args, again, FALSE, "",
                                       "undefined", 0, made.data,
                                       CallerObject(method, passed, made.data))
                /\ UNCHANGED <<requests, trackers>>
         ELSE /\ requests' = Append(requests, NewRequest(i, method, args, made.data.o))
              /\ trackers' = [trackers EXCEPT ![i] = ThisAfterTrack(this, made.data.o)]
              /\ lastCall' = Called(i, via, method, passed, args, again, FALSE, "",
                                     "promise", Len(requests) + 1, sent,
                                     CallerObject(method, passed, sent))
  /\ UNCHANGED <<console, hookVars>>

\* tracker i's method(args), called directly, or through a hook function
\* that passes its arguments on
Call(i, method, args, via, max) == CallWith(i, method, args, args, via, FALSE, max)

\* the caller calls the method of its latest call once more, with the very
\* object it passed then, as that call left it
CallAgain(i, max) ==
  /\ lastCall.inst = i
  /\ lastCall.method \in Methods
  /\ lastCall.via = "direct"
  /\ ~lastCall.again
  /\ LET args == [lastCall.args EXCEPT !.ui = lastCall.argAfter]
     IN  CallWith(i, lastCall.method, args, args, "direct", TRUE, max)

\* the transport settles the promise fetch returned for request r; the
\* callbacks run later, each as a job of its own
FetchSettles(r, fetched) ==
  /\ r \in 1..Len(requests)
  /\ requests[r].fetched.state = "pending"
  /\ requests' = [requests EXCEPT ![r].fetched = fetched]
  /\ UNCHANGED <<trackers, console, lastCall, hookVars>>

\* the job of .then: the callback runs on a response, a rejection passes
\* through; this settles the promise .then returned
ThenJob(r) ==
  /\ r \in 1..Len(requests)
  /\ requests[r].fetched.state # "pending"
  /\ requests[r].chained.state = "pending"
  /\ LET p == Then(trackers[requests[r].inst], Incoming(requests[r].fetched))
     IN  /\ requests' = [requests EXCEPT ![r].chained = [v |-> p.v, state |-> p.state]]
         /\ console' = console \o Lines(requests[r].inst, p.out)
  /\ UNCHANGED <<trackers, lastCall, hookVars>>

\* a job of .catch after which a request that failed is handed to fetch
\* once more
CatchJobAndRetry(r) ==
  /\ r \in 1..Len(requests)
  /\ requests[r].chained.state # "pending"
  /\ requests[r].promise.state = "pending"
  /\ LET p == Catch(trackers[requests[r].inst], Incoming(requests[r].chained))
         settled == [requests EXCEPT ![r].promise = [v |-> p.v, state |-> p.state]]
         again == [requests[r] EXCEPT !.fetched = Pending, !.chained = Pending]
     IN  /\ requests' = IF requests[r].chained.state = "rejected"
                             /\ Len(requests) < MaxRequests + 1
                          THEN Append(settled, again)
                          ELSE settled
         /\ console' = console \o Lines(requests[r].inst, p.out)
  /\ UNCHANGED <<trackers, lastCall, hookVars>>

\* the job of .catch: the callback runs on a rejection, a value passes
\* through; this settles the promise track returned
CatchJob(r) ==
  /\ r \in 1..Len(requests)
  /\ requests[r].chained.state # "pending"
  /\ requests[r].promise.state = "pending"
  /\ LET p == Catch(trackers[requests[r].inst], Incoming(requests[r].chained))
     IN  /\ requests' = [requests EXCEPT ![r].promise = [v |-> p.v, state |-> p.state]]
         /\ console' = console \o Lines(requests[r].inst, p.out)
  /\ UNCHANGED <<trackers, lastCall, hookVars>>

(***************************************************************************)
(* Methods the class does not have.  The README and the useMemo variant of *)
(* the hook name trackContent, updateUserInfo and removeUserInfo; the      *)
(* MatomoTracker class defines none of them.                               *)
(***************************************************************************)
\* the methods of the class
HasMethod(name) == name \in Methods \cup {"initialize"}

\* calling a property that is undefined
NotAFunction(method) == "TypeError: " \o method \o " is not a function"

\* tracker i's method(args) for a method the class does not have
CallMissing(i, method, args) ==
  /\ trackers[i].status = "live"
  /\ ~HasMethod(method)
  /\ lastCall' = Called(i, "direct", method, args, args, FALSE, TRUE, NotAFunction(method),
                         "", 0, NoObj, args.ui)
  /\ UNCHANGED <<trackers, console, requests, hookVars>>

(***************************************************************************)
(* useMatomo.  A function value is [id, inst]: the render that created it  *)
(* and the instance its body closes over; two function values are the same *)
(* function exactly when they were created by the same render.             *)
(***************************************************************************)
\* a hook that stores the new value on every render
UseCallbackAlways(cell, fn, deps) == [set |-> TRUE, fn |-> fn, deps |-> deps]

\* React's useCallback: the stored function while the deps are unchanged
UseCallback(cell, fn, deps) ==
  IF cell.set /\ cell.deps = deps
    THEN cell
    ELSE [set |-> TRUE, fn |-> fn, deps |-> deps]

\* React's useMemo: the stored value while the deps are unchanged
UseMemo(cell, value, deps) ==
  IF cell.set /\ cell.deps = deps
    THEN cell
    ELSE [value |-> value, set |-> TRUE, deps |-> deps]

\* the deps array of each useCallback
DepsOf(f, instance) == IF f = "trackLink" THEN <<>> ELSE <<instance>>

\* useMatomo of src/src/useMatomo.js, render n: the useCallback cells
UseMatomo(cs, instance, n) ==
  [f \in FnNames |->
     UseCallback(cs[f], [inst |-> instance, id |-> n], DepsOf(f, instance))]

\* the useMemo variant of useMatomo, render n: the useMemo cell
UseMatomoMemo(m, instance, n) ==
  UseMemo(m, [f \in MemoNames |-> [inst |-> instance, id |-> n]], <<instance>>)

\* the component that calls the hooks renders
Render ==
  /\ renders < MaxRenders
  /\ trackers[ctx].status = "live"
  /\ renders' = renders + 1
  /\ cells' = UseMatomo(cells, ctx, renders + 1)
  /\ memo' = UseMatomoMemo(memo, ctx, renders + 1)
  /\ hooks' = [inst |-> ctx, prevInst |-> hooks.inst,
               cb |-> [f \in FnNames |-> cells'[f].fn], cbPrev |-> hooks.cb,
               mm |-> memo'.value, mmPrev |-> hooks.mm]
  /\ UNCHANGED <<trackers, console, requests, lastCall, ctx>>

\* the provider is given another tracker instance
SetInstance(i) ==
  /\ i # ctx
  /\ trackers[i].status = "live"
  /\ ctx' = i
  /\ UNCHANGED <<trackers, console, requests, lastCall, renders, cells, memo, hooks>>

\* the arguments a hook function passes on: trackAppStart of the useCallback
\* hook calls instance.trackAppStart() without any
ForwardedArgs(variant, f, args) ==
  IF variant = "useCallback" /\ f = "trackAppStart" THEN NoArgs ELSE args

\* a tracking function the latest render returned is called; a function of
\* the useMemo variant is instance.f && instance.f(params)
HookTrack(variant, f, args, max) ==
  /\ renders >= 1
  /\ f \in FnNames
  /\ variant = "useMemo" => HasMethod(f)
  /\ LET fn == IF variant = "useCallback" THEN hooks.cb[f] ELSE hooks.mm[f]
     IN  CallWith(fn.inst, f, args, ForwardedArgs(variant, f, args), variant, FALSE, max)

\* a function of the useMemo variant whose method the instance does not
\* have is called: instance.f && instance.f(params) is undefined
HookGuarded(f, args) ==
  /\ renders >= 1
  /\ f \in MemoNames
  /\ ~HasMethod(f)
  /\ trackers[hooks.mm[f].inst].status = "live"
  /\ lastCall' = Called(hooks.mm[f].inst, "useMemo", f, args, NoArgs, FALSE, FALSE, "",
                         "undefined", 0, NoObj, args.ui)
  /\ UNCHANGED <<trackers, console, requests, hookVars>>

(***************************************************************************)
(* Inputs.                                                                 *)
(***************************************************************************)
\* userInfo bags: none, and one with an integer-like key, a language and
\* overrides of the protocol's own keys and of keys a tracking method
\* generates
UserInfos ==
  {NoObj,
   ObjVal(<<Entry("7", Str("seven")), Entry("uid", Str("u9")), Entry("idsite", Num(9)),
            Entry("rec", Num(0)), Entry("lang", Str("en")),
            Entry("action_name", Str("Override")), Entry("search_count", Num(7))>>)}

NameParams == {<<>>, <<Entry("name", Str(""))>>, <<Entry("name", Str("Home"))>>}

EventParams ==
  {<<>>,
   <<Entry("category", Str("Videos"))>>,
   <<Entry("action", Str("Play"))>>,
   <<Entry("category", Str("Videos")), Entry("action", Str("Play"))>>,
   <<Entry("category", Str("Videos")), Entry("action", Str("Play")),
     Entry("name", Str("Song")), Entry("value", Num(0)),
     Entry("campaign", Str("spring"))>>}

SearchParams ==
  {<<>>,
   <<Entry("count", Num(0))>>,
   <<Entry("keyword", Str("x"))>>,
   <<Entry("keyword", Str("x")), Entry("count", Num(0))>>,
   <<Entry("keyword", Str("x")), Entry("category", Str("docs")), Entry("count", Num(5))>>}

LinkParams == {<<>>, <<Entry("link", Str("https://e.org"))>>}

DownloadParams == {<<>>, <<Entry("download", Str("https://e.org/f.pdf"))>>}

\* the data objects handed to track directly
TrackData ==
  {NoObj, NullObj, ObjVal(<<>>),
   ObjVal(<<Entry("action_name", Str("Raw")), Entry("lang", Str("fr"))>>)}

ParamsOf(method) ==
  CASE method = "trackAppStart" -> {<<>>}
    [] method \in {"trackScreenView", "trackAction"} -> NameParams
    [] method = "trackEvent" -> EventParams
    [] method = "trackSiteSearch" -> SearchParams
    [] method = "trackLink" -> LinkParams
    [] method = "trackDownload" -> DownloadParams

\* the argument lists a method is called with: those that pass validation
\* with every userInfo, the others without
CallArgs(method) ==
  IF method = "track"
    THEN {Args(<<>>, d) : d \in TrackData}
    ELSE {NoArgs} \cup {Args(p, NoObj) : p \in ParamsOf(method)}
           \cup {Args(p, ui) : p \in {x \in ParamsOf(method) : ~Invoke(method, Args(x, NoObj)).threw},
                                ui \in UserInfos}

\* the options of the trackers whose tracking calls are explored
MainOptions ==
  {Options(Url(<<"h">>), NoUrl, Num(1), Undef, Undef, Undef),
   Options(Url(<<"h">>), NoUrl, Num(1), Str("u1"), Undef, Bool(TRUE)),
   Options(Url(<<"h">>), NoUrl, Num(1), Undef, Bool(TRUE), Undef),
   Options(Url(<<"h">>), NoUrl, Num(1), Str("u1"), Bool(TRUE), Bool(TRUE))}

\* the options the constructor is explored with
AllOptions ==
  {Options(urlBase, trackerUrl, siteId, userId, disabled, log) :
     urlBase \in {NoUrl, Url(<<>>), Url(<<"h">>), Url(<<"h", "/">>),
                  Url(<<"h", "/", "/">>)},
     trackerUrl \in {NoUrl, NullUrl, Url(<<>>), Url(<<"t">>)},
     siteId \in {Undef, Num(0), Num(1)},
     userId \in {Undef, Str(""), Str("u1")},
     disabled \in {Undef, Bool(FALSE), Bool(TRUE)},
     log \in {Undef, Bool(FALSE), Bool(TRUE)}}

(***************************************************************************)
(* Specifications.                                                         *)
(***************************************************************************)
\* one tracker, every tracking method, the transport
Next ==
  \/ \E opts \in MainOptions : Construct(ctx, opts)
  \/ \E m \in Methods : \E a \in CallArgs(m) : Call(ctx, m, a, "direct", MaxRequests)
  \/ \E r \in 1..Len(requests) : \E f \in FetchOutcomes : FetchSettles(r, f)
  \/ \E r \in 1..Len(requests) : ThenJob(r)
  \/ \E r \in 1..Len(requests) : CatchJob(r)

Spec == Init /\ [][Next]_vars

\* the constructor under every combination of options, and a first call
NextCtor ==
  \/ \E opts \in AllOptions : Construct(ctx, opts)
  \/ Call(ctx, "trackAppStart", NoArgs, "direct", MaxRequests)

SpecCtor == Init /\ [][NextCtor]_vars

\* the options of the tracker instances given to the provider
HookOptions(i) == Options(Url(<<"h">>), NoUrl, Num(i), Str("u1"), Undef, Undef)

\* the options of the tracker on which updateUserInfo is called
UserOptions ==
  {Options(Url(<<"h">>), NoUrl, Num(1), userId, Undef, Undef) :
     userId \in {Undef, Str("u1")}}

\* the argument lists the hook's functions are called with
HookArgs(f) ==
  CASE f = "trackAppStart" -> {NoArgs, Args(<<>>, ObjVal(<<Entry("lang", Str("de"))>>))}
    [] f = "trackScreenView" -> {Args(<<Entry("name", Str("Home"))>>, NoObj)}
    [] f = "trackAction" ->
         {Args(<<>>, NoObj), Args(<<Entry("name", Str("Tap"))>>, NoObj),
          Args(<<Entry("name", Str("Tap"))>>, ObjVal(<<Entry("uid", Str("u9"))>>))}
    [] f = "trackEvent" ->
         {Args(<<Entry("category", Str("Videos")), Entry("action", Str("Play"))>>, NoObj)}
    [] f = "trackSiteSearch" -> {Args(<<Entry("keyword", Str("x"))>>, NoObj)}
    [] f = "trackLink" -> {Args(<<Entry("link", Str("https://e.org"))>>, NoObj)}
    [] f = "trackDownload" -> {Args(<<Entry("download", Str("https://e.org/f.pdf"))>>, NoObj)}
    [] f = "trackContent" -> {Args(<<Entry("name", Str("c"))>>, NoObj)}
    [] f = "updateUserInfo" ->
         {Args(<<>>, ObjVal(<<Entry("uid", Str("u2"))>>)),
          Args(<<>>, ObjVal(<<Entry("cip", Str("1.2.3.4"))>>))}
    [] f = "removeUserInfo" -> {NoArgs}

\* every instance a provider may be given has been constructed
InitHook ==
  /\ trackers = [i \in Instances |-> Constructor(NoTracker, HookOptions(i)).this]
  /\ console = <<>>
  /\ requests = <<>>
  /\ lastCall = NoCall
  /\ ctx = 1
  /\ renders = 0
  /\ cells = [f \in FnNames |-> NoCell]
  /\ memo = NoMemo
  /\ hooks = NoHooks

\* tracker instances behind a provider and the component that uses the hooks
NextHook ==
  \/ \E i \in Instances : SetInstance(i)
  \/ Render
  \/ \E v \in {"useCallback", "useMemo"} :
       \E f \in {"trackAppStart", "trackAction", "trackLink"} : \E a \in HookArgs(f) :
         HookTrack(v, f, a, MaxRequests)
  \/ \E a \in HookArgs("trackContent") : HookGuarded("trackContent", a)

SpecHook == InitHook /\ [][NextHook]_vars

\* one tracker on which updateUserInfo and removeUserInfo are called, on the
\* tracker itself and through the hook, between tracking calls
NextUser ==
  \/ \E opts \in UserOptions : Construct(ctx, opts)
  \/ Render
  \/ \E f \in {"updateUserInfo", "removeUserInfo"} : \E a \in HookArgs(f) :
       CallMissing(ctx, f, a)
  \/ \E f \in MemoNames \ FnNames : \E a \in HookArgs(f) : HookGuarded(f, a)
  \/ \E a \in HookArgs("trackAction") : Call(ctx, "trackAction", a, "direct", MaxRequests)
  \/ \E f \in {"trackAppStart", "trackAction"} : \E a \in HookArgs(f) :
       HookTrack("useMemo", f, a, MaxRequests)
  \/ \E r \in 1..Len(requests) : \E f \in FetchOutcomes : FetchSettles(r, f)
  \/ \E r \in 1..Len(requests) : ThenJob(r)
  \/ \E r \in 1..Len(requests) : CatchJob(r)

SpecUser == Init /\ [][NextUser]_vars

\* the options of the tracker whose calls are repeated
RepeatOptions == Options(Url(<<"h">>), NoUrl, Num(1), Str("u1"), Undef, Undef)

\* the argument lists of the calls that are repeated: userInfo bags with a
\* language, with an override of the tracker's uid and with an empty value
\* for the key the method generates; a call that fails validation; a data
\* object for track
RepeatArgs(method) ==
  CASE method = "trackAppStart" ->
         {Args(<<>>, ObjVal(<<Entry("lang", Str("en")), Entry("uid", Str("u9"))>>))}
    [] method = "trackScreenView" ->
         {Args(<<>>, NoObj),
          Args(<<Entry("name", Str("Home"))>>, ObjVal(<<Entry("lang", Str("en"))>>))}
    [] method = "trackAction" ->
         {Args(<<Entry("name", Str("Tap"))>>, ObjVal(<<Entry("action_name", Str(""))>>))}
    [] method = "trackEvent" ->
         {Args(<<Entry("category", Str("Videos")), Entry("action", Str("Play"))>>,
               ObjVal(<<Entry("e_c", Str("")), Entry("lang", Str("en"))>>))}
    [] method = "trackSiteSearch" ->
         {Args(<<Entry("keyword", Str("x"))>>, ObjVal(<<Entry("lang", Str("en"))>>))}
    [] method = "trackLink" ->
         {Args(<<Entry("link", Str("https://e.org"))>>,
               ObjVal(<<Entry("idsite", Num(9)), Entry("lang", Str("en"))>>))}
    [] method = "trackDownload" ->
         {Args(<<Entry("download", Str("https://e.org/f.pdf"))>>,
               ObjVal(<<Entry("lang", Str("en"))>>))}
    [] method = "track" ->
         {Args(<<>>, ObjVal(<<Entry("action_name", Str("Raw")), Entry("lang", Str("fr"))>>)),
          Args(<<>>, ObjVal(<<>>))}

\* the argument lists of the calls made while the tracker is initialized
\* again: every method is called; one call overrides the tracker's uid and
\* idsite, three are plain, five fail validation
ConfigArgs(method) ==
  CASE method = "trackAppStart" ->
         {Args(<<>>, ObjVal(<<Entry("uid", Str("u9")), Entry("idsite", Num(9))>>))}
    [] method = "trackScreenView" ->
         {Args(<<>>, NoObj), Args(<<Entry("name", Str("Home"))>>, NoObj)}
    [] method = "trackAction" -> {Args(<<Entry("name", Str("Tap"))>>, NoObj)}
    [] method = "track" -> {Args(<<>>, ObjVal(<<Entry("action_name", Str("Raw"))>>))}
    [] OTHER -> {Args(<<>>, ObjVal(<<Entry("uid", Str("u9"))>>))}

\* what the transport does with the requests made while the tracker is
\* initialized again
ConfigOutcomes == {Rejected(Err("Network request failed"))}

\* the options initialize is called with on a tracker that is in use:
\* another endpoint, site and user with logging; tracking switched off; no
\* urlBase; a null urlBase
ReinitOptions ==
  {Options(Url(<<"g">>), NoUrl, Num(2), Str("u2"), Undef, Bool(TRUE)),
   Options(Url(<<"h">>), NoUrl, Num(1), Undef, Bool(TRUE), Undef),
   Options(NoUrl, NoUrl, Num(1), Undef, Undef, Undef),
   Options(NullUrl, NoUrl, Num(1), Undef, Undef, Undef)}

\* the tracker of the context has been constructed
InitRepeat ==
  /\ trackers = [i \in Instances |->
                   IF i = 1 THEN Constructor(NoTracker, RepeatOptions).this ELSE NoTracker]
  /\ console = <<>>
  /\ requests = <<>>
  /\ lastCall = NoCall
  /\ ctx = 1
  /\ renders = 0
  /\ cells = [f \in FnNames |-> NoCell]
  /\ memo = NoMemo
  /\ hooks = NoHooks

\* one tracker and a caller that makes several calls, some of them with the
\* object of the call before
NextRepeat ==
  \/ \E m \in Methods : \E a \in RepeatArgs(m) : Call(ctx, m, a, "direct", MaxRequests + 1)
  \/ CallAgain(ctx, MaxRequests + 1)
  \/ \E r \in 1..Len(requests) : \E f \in FetchOutcomes : FetchSettles(r, f)
  \/ \E r \in 1..Len(requests) : ThenJob(r)
  \/ \E r \in 1..Len(requests) : CatchJob(r)

SpecRepeat == InitRepeat /\ [][NextRepeat]_vars

\* one tracker and a caller that makes tracking calls and may initialize the
\* tracker again between them
NextConfig ==
  \/ \E m \in Methods : \E a \in ConfigArgs(m) : Call(ctx, m, a, "direct", MaxRequests + 1)
  \/ \E opts \in ReinitOptions : Reinitialize(ctx, opts)
  \/ \E r \in 1..Len(requests) : \E f \in ConfigOutcomes : FetchSettles(r, f)
  \/ \E r \in 1..Len(requests) : ThenJob(r)
  \/ \E r \in 1..Len(requests) : CatchJob(r)

SpecConfig == InitRepeat /\ [][NextConfig]_vars

(***************************************************************************)
(* Claims.                                                                 *)
(***************************************************************************)
Live(i) == trackers[i].status = "live"
Enabled(i) == Live(i) /\ ~Truthy(trackers[i].disabled)
Disabled(i) == Live(i) /\ Truthy(trackers[i].disabled)

\* the value of the body parameter k of request r, "" when there is none
BodyHas(r, k) == \E j \in 1..Len(r.body) : r.body[j].k = k
BodyValue(r, k) ==
  IF BodyHas(r, k) THEN r.body[CHOOSE j \in 1..Len(r.body) : r.body[j].k = k].v ELSE ""

\* the userInfo of the call behind request r (for track: its data object)
CallUserInfo(r) == UserInfoOf(r.call.args)

\* C1: on a tracker constructed with disabled=true no tracking call issues a
\* network request, and every tracking call returns without raising an error.
C1_DisabledCallsAreSilent ==
  \A i \in Instances :
    Disabled(i) =>
      /\ \A r \in 1..Len(requests) : requests[r].inst # i
      /\ (lastCall.inst = i /\ lastCall.method \in Methods) =>
           (~lastCall.threw /\ lastCall.req = 0)

\* C2: the promise track returns never rejects; it stays pending until the
\* callbacks have run, and then it is fulfilled: with an Error when the
\* transport failed or answered with a status that is not ok, and with the
\* very response when the transport answered ok.
C2_TrackNeverRejects ==
  \A r \in 1..Len(requests) :
    LET q == requests[r]
    IN  /\ q.promise.state \in {"pending", "fulfilled"}
        /\ q.fetched.state = "pending" =>
             (q.chained.state = "pending" /\ q.promise.state = "pending")
        /\ q.chained.state = "pending" => q.promise.state = "pending"
        /\ (q.promise.state = "fulfilled" /\ q.fetched.state = "rejected") =>
             (q.promise.v.kind = "error" /\ q.promise.v = q.fetched.v)
        /\ (q.promise.state = "fulfilled" /\ q.fetched.state = "fulfilled"
              /\ ~q.fetched.v.ok) =>
             q.promise.v = Err(q.fetched.v.text)
        /\ (q.promise.state = "fulfilled" /\ q.fetched.state = "fulfilled"
              /\ q.fetched.v.ok) =>
             q.promise.v = q.fetched.v

\* a request whose response was not ok and whose promise was fulfilled with
\* an Error, next to the log of a tracker that logs
C2_Witness ==
  \E r \in 1..Len(requests) :
    /\ requests[r].fetched = Fulfilled(Resp(FALSE, "Internal Server Error"))
    /\ requests[r].promise = Fulfilled(Err("Internal Server Error"))
    /\ Truthy(trackers[requests[r].inst].log)

\* the call method(args) lacks a field the method requires
MissingRequired(method, args) ==
  CASE method \in {"trackScreenView", "trackAction"} -> ~Truthy(Get(args.p, "name"))
    [] method = "trackEvent" ->
         ~Truthy(Get(args.p, "category")) \/ ~Truthy(Get(args.p, "action"))
    [] method = "trackSiteSearch" -> ~Truthy(Get(args.p, "keyword"))
    [] method = "trackLink" -> ~Truthy(Get(args.p, "link"))
    [] method = "trackDownload" -> ~Truthy(Get(args.p, "download"))
    [] OTHER -> FALSE

\* C3: a tracking method called without its required field raises an error
\* synchronously, and no network request is issued for that call.
C3_MissingFieldThrows ==
  /\ MissingRequired(lastCall.method, lastCall.args) =>
       (lastCall.threw /\ lastCall.err # "" /\ lastCall.ret = "" /\ lastCall.req = 0)
  /\ \A r \in 1..Len(requests) : ~MissingRequired(requests[r].call.method, requests[r].call.args)

\* trackEvent with an action and no category threw on an enabled tracker
C3_Witness ==
  /\ lastCall.method = "trackEvent"
  /\ Enabled(lastCall.inst)
  /\ Truthy(Get(lastCall.args.p, "action"))
  /\ ~Has(lastCall.args.p, "category")
  /\ lastCall.threw
  /\ requests = <<>>

\* the options lack urlBase or siteId
LacksRequiredOption(opts) ==
  \/ opts.urlBase.t = "undefined" \/ opts.urlBase.c = <<>>
  \/ opts.siteId.t = "undefined" \/ opts.siteId = Num(0)

\* C4: constructing a tracker without urlBase or without siteId raises a
\* configuration error before any field is set and before any log output or
\* other side effect, whatever disabled and log are.
C4_ConstructionFailsFirst ==
  \A i \in Instances :
    (trackers[i].status # "none" /\ LacksRequiredOption(trackers[i].opts)) =>
      /\ trackers[i].status = "failed"
      /\ trackers[i].err # ""
      /\ trackers[i].disabled = Undef /\ trackers[i].log = Undef
      /\ trackers[i].trackerUrl = NoUrl
      /\ trackers[i].siteId = Undef /\ trackers[i].userId = Undef
      /\ \A j \in 1..Len(console) : console[j].inst # i
      /\ \A r \in 1..Len(requests) : requests[r].inst # i

\* a construction with disabled and log set that failed for want of a siteId
C4_Witness ==
  \E i \in Instances :
    /\ trackers[i].status = "failed"
    /\ trackers[i].opts.urlBase = Url(<<"h">>)
    /\ trackers[i].opts.siteId = Undef
    /\ trackers[i].opts.disabled = Bool(TRUE)
    /\ trackers[i].opts.log = Bool(TRUE)

RECURSIVE TrailingSlashes(_)
\* the number of '/' a string ends with
TrailingSlashes(c) ==
  IF c = <<>> \/ c[Len(c)] # "/" THEN 0 ELSE 1 + TrailingSlashes(SubSeq(c, 1, Len(c) - 1))

\* the string without the '/' it ends with
Stem(c) == SubSeq(c, 1, Len(c) - TrailingSlashes(c))

EndsWithMatomoPhp(c) ==
  Len(c) >= Len(MatomoPhp) /\ SubSeq(c, Len(c) - Len(MatomoPhp) + 1, Len(c)) = MatomoPhp

\* what precedes the final 'matomo.php'
BeforeMatomoPhp(c) == SubSeq(c, 1, Len(c) - Len(MatomoPhp))

TrackerUrlGiven(opts) == opts.trackerUrl.t = "string"

\* C5 as stated: the endpoint of an enabled tracker is trackerUrl when given;
\* otherwise it is urlBase normalized to end with exactly one '/', followed
\* by 'matomo.php', so that no double separator precedes 'matomo.php'.
C5_ExactlyOneSeparator ==
  \A i \in Instances :
    Enabled(i) =>
      LET opts == trackers[i].opts
          url == trackers[i].trackerUrl
      IN  IF TrackerUrlGiven(opts)
            THEN url = opts.trackerUrl
            ELSE /\ url.t = "string"
                 /\ EndsWithMatomoPhp(url.c)
                 /\ Stem(BeforeMatomoPhp(url.c)) = Stem(opts.urlBase.c)
                 /\ TrailingSlashes(BeforeMatomoPhp(url.c)) = 1

\* C5 (amended): the endpoint of an enabled tracker is trackerUrl when given;
\* otherwise it is urlBase, with one '/' appended unless urlBase already ends
\* with '/', followed by 'matomo.php': the base keeps the trailing '/' urlBase
\* has and gets one when it has none, so exactly one '/' precedes 'matomo.php'
\* unless urlBase itself ends with more than one.  Every request goes to
\* that endpoint.
C5_SeparatorAppendedWhenMissing ==
  /\ \A i \in Instances :
       Enabled(i) =>
         LET opts == trackers[i].opts
             url == trackers[i].trackerUrl
             had == TrailingSlashes(opts.urlBase.c)
         IN  IF TrackerUrlGiven(opts)
               THEN url = opts.trackerUrl
               ELSE /\ url.t = "string"
                    /\ EndsWithMatomoPhp(url.c)
                    /\ Stem(BeforeMatomoPhp(url.c)) = Stem(opts.urlBase.c)
                    /\ TrailingSlashes(BeforeMatomoPhp(url.c)) = (IF had = 0 THEN 1 ELSE had)
  /\ \A r \in 1..Len(requests) : requests[r].url = trackers[requests[r].inst].trackerUrl

\* a tracker made from a urlBase without a trailing '/' and no trackerUrl,
\* whose first request went to urlBase/matomo.php
C5_Witness ==
  \E r \in 1..Len(requests) :
    /\ trackers[requests[r].inst].opts.urlBase = Url(<<"h">>)
    /\ ~TrackerUrlGiven(trackers[requests[r].inst].opts)
    /\ requests[r].url = Url(<<"h", "/">> \o MatomoPhp)

\* C6: in every request dispatched by a tracking method the userInfo key lang
\* is no body parameter; its value is the value of the Accept-Language
\* header of that request.
C6_LangOnlyInHeader ==
  \A r \in 1..Len(requests) :
    /\ ~BodyHas(requests[r], "lang")
    /\ requests[r].headers.AcceptLanguage = Get(CallUserInfo(requests[r]), "lang")

\* a request of a tracking method whose userInfo names a language
C6_Witness ==
  \E r \in 1..Len(requests) :
    /\ requests[r].call.method = "trackScreenView"
    /\ Get(CallUserInfo(requests[r]), "lang") = Str("en")
    /\ requests[r].headers.AcceptLanguage = Str("en")
    /\ Len(requests[r].body) > 0

\* the fields a tracking method generates for its call, before any userInfo
\* (for track there are none: the data object is all userInfo)
CallFields(call) ==
  IF call.method = "track"
    THEN <<>>
    ELSE Invoke(call.method, [p |-> call.args.p, ui |-> NoObj, given |-> call.args.given]).data.o

\* everything that goes into the body of request r, in the order of writing
BodyLayers(r) ==
  LET this == trackers[r.inst]
  IN  <<Entry("idsite", this.siteId), Entry("rec", Num(1)), Entry("apiv", Num(1))>>
        \o (IF Truthy(this.userId) THEN <<Entry("uid", this.userId)>> ELSE <<>>)
        \o <<Entry("send_image", Num(0))>>
        \o CallFields(r.call)
        \o SelectSeq(CallUserInfo(r), LAMBDA e : e.k # "lang")

\* the last value written for key k
LastWritten(layers, k) ==
  layers[CHOOSE j \in 1..Len(layers) :
           layers[j].k = k /\ \A m \in (j + 1)..Len(layers) : layers[m].k # k].v

RECURSIVE FirstWritten(_)
\* the keys in the order in which each was first written
FirstWritten(layers) ==
  IF layers = <<>> THEN <<>>
  ELSE LET front == FirstWritten(SubSeq(layers, 1, Len(layers) - 1))
           k == layers[Len(layers)].k
       IN  IF \E j \in 1..Len(front) : front[j] = k THEN front ELSE Append(front, k)

RECURSIVE Ascending(_)
\* a set of integer-like keys in ascending order
Ascending(S) ==
  IF S = {} THEN <<>>
  ELSE LET least == CHOOSE k \in S : \A j \in S : ArrayIndex(k) <= ArrayIndex(j)
       IN  <<least>> \o Ascending(S \ {least})

\* keys in the order of enumeration: the integer-like ones in ascending
\* order, then the others as they were first written
Enumerated(keys) ==
  Ascending({keys[j] : j \in {m \in 1..Len(keys) : IsIndex(keys[m])}})
    \o SelectSeq(keys, LAMBDA k : ~IsIndex(k))

\* C7 as stated: the body of every request is idsite, rec=1, apiv=1, uid
\* exactly when a userId is configured, send_image=0, the call's fields and
\* the userInfo, in that order; where a key is written twice the later value
\* wins, so that a userInfo key replaces a generated value of the same name.
C7_BodyOverlay ==
  \A r \in 1..Len(requests) :
    LET q == requests[r]
        layers == BodyLayers(q)
    IN  /\ [j \in 1..Len(q.body) |-> q.body[j].k] = FirstWritten(layers)
        /\ \A j \in 1..Len(q.body) : q.body[j].v = ToStr(LastWritten(layers, q.body[j].k))
        /\ BodyHas(q, "uid") <=>
             (Truthy(trackers[q.inst].userId) \/ Has(CallUserInfo(q), "uid"))

\* C7 (amended): the body of every request has the keys idsite, rec, apiv,
\* uid exactly when a userId is configured, send_image, the call's fields and
\* the userInfo, in that order of first writing except that integer-like
\* keys come first, in ascending order; where a key is written twice the
\* later value wins, so that a userInfo key replaces a generated value of
\* the same name.
C7_BodyOverlayInKeyOrder ==
  \A r \in 1..Len(requests) :
    LET q == requests[r]
        layers == BodyLayers(q)
    IN  /\ [j \in 1..Len(q.body) |-> q.body[j].k] = Enumerated(FirstWritten(layers))
        /\ \A j \in 1..Len(q.body) : q.body[j].v = ToStr(LastWritten(layers, q.body[j].k))
        /\ BodyHas(q, "uid") <=>
             (Truthy(trackers[q.inst].userId) \/ Has(CallUserInfo(q), "uid"))

\* a request of a tracker with a userId whose userInfo has an integer-like
\* key and overrides idsite, rec, uid and the action name the method generates
C7_Witness ==
  \E r \in 1..Len(requests) :
    /\ trackers[requests[r].inst].userId = Str("u1")
    /\ requests[r].call.method = "trackAction"
    /\ Get(requests[r].call.args.p, "name") = Str("Home")
    /\ requests[r].body[1] = [k |-> "7", v |-> "seven"]
    /\ requests[r].body[2] = [k |-> "idsite", v |-> "9"]
    /\ BodyValue(requests[r], "rec") = "0"
    /\ BodyValue(requests[r], "uid") = "u9"
    /\ BodyValue(requests[r], "action_name") = "Override"
    /\ BodyValue(requests[r], "send_image") = "0"

\* the latest call is trackSiteSearch with a keyword and count = 0 on an
\* enabled tracker
ZeroCountCall ==
  /\ lastCall.method = "trackSiteSearch"
  /\ Truthy(Get(lastCall.args.p, "keyword"))
  /\ Get(lastCall.args.p, "count") = Num(0)
  /\ Enabled(lastCall.inst)

\* the requests of trackSiteSearch calls with count = 0
ZeroCountRequests ==
  {r \in 1..Len(requests) :
     /\ requests[r].call.method = "trackSiteSearch"
     /\ Get(requests[r].call.args.p, "count") = Num(0)}

\* C8: trackSiteSearch with a keyword and count = 0 on an enabled tracker
\* dispatches a request whose body contains search_count=0.
C8_ZeroCountIsSent ==
  /\ ZeroCountCall => (lastCall.ret = "promise" /\ lastCall.req \in 1..Len(requests))
  /\ \A r \in ZeroCountRequests :
       BodyHas(requests[r], "search_count") /\ BodyValue(requests[r], "search_count") = "0"

\* C8: trackSiteSearch with a keyword and count = 0 on an enabled tracker
\* dispatches a request whose body has the parameter search_count: its value
\* is 0 when the userInfo of the call has no search_count key, and the
\* userInfo's search_count when it has one.
C8_ZeroCountIsSentUnlessOverridden ==
  /\ ZeroCountCall => (lastCall.ret = "promise" /\ lastCall.req \in 1..Len(requests))
  /\ \A r \in ZeroCountRequests :
       /\ BodyHas(requests[r], "search_count")
       /\ BodyValue(requests[r], "search_count") =
            (IF Has(CallUserInfo(requests[r]), "search_count")
               THEN ToStr(Get(CallUserInfo(requests[r]), "search_count"))
               ELSE "0")

\* the request of trackSiteSearch({ keyword: "x", count: 0 }) on a tracker
\* that has sent nothing else
C8_Witness ==
  /\ Len(requests) = 1
  /\ requests[1].call.method = "trackSiteSearch"
  /\ requests[1].call.args = Args(<<Entry("keyword", Str("x")), Entry("count", Num(0))>>, NoObj)
  /\ BodyValue(requests[1], "search") = "x"
  /\ BodyHas(requests[1], "search_count")
  /\ BodyValue(requests[1], "search_count") = "0"

\* request q carries the identity of its tracker: the uid is the userId the
\* tracker holds, and there is none when it holds none (a uid in the userInfo
\* of the call itself takes precedence)
CarriesIdentity(q, this) ==
  IF Has(CallUserInfo(q), "uid") THEN BodyHas(q, "uid")
  ELSE IF Truthy(this.userId)
    THEN BodyHas(q, "uid") /\ BodyValue(q, "uid") = ToStr(this.userId)
  ELSE ~BodyHas(q, "uid")

\* what fetch was given for request q
Sent(q) == <<q.inst, q.url, q.method, q.headers, q.body>>

\* right after updateUserInfo the tracker holds the identity it was given,
\* right after removeUserInfo it holds none
IdentityFollowsLastCall ==
  /\ (lastCall.method = "updateUserInfo" /\ Truthy(Get(UserInfoOf(lastCall.passed), "uid"))) =>
       trackers[lastCall.inst].userId = Get(UserInfoOf(lastCall.passed), "uid")
  /\ lastCall.method = "removeUserInfo" => trackers[lastCall.inst].userId = Undef

\* a step keeps every request already dispatched as it was sent, changes the
\* identity of a tracker only in updateUserInfo and removeUserInfo, and
\* dispatches a new request with the identity the tracker holds
IdentityStep ==
  /\ Len(requests') >= Len(requests)
  /\ \A r \in 1..Len(requests) : Sent(requests'[r]) = Sent(requests[r])
  /\ \A i \in Instances :
       (Live(i) /\ trackers'[i].userId # trackers[i].userId) =>
         (lastCall'.inst = i /\ lastCall'.method \in {"updateUserInfo", "removeUserInfo"}
            /\ requests' = requests)
  /\ Len(requests') > Len(requests) =>
       /\ trackers' = trackers
       /\ CarriesIdentity(requests'[Len(requests')], trackers[requests'[Len(requests')].inst])

\* C9: after updateUserInfo every later tracking call sends the updated
\* identity, after removeUserInfo every later tracking call sends none, and a
\* request already dispatched is not changed by either; on the tracker and
\* through the hook alike.
C9_IdentityOfLaterCalls == []IdentityFollowsLastCall /\ [][IdentityStep]_vars

\* C10: when the tracker instance of the context is the one the previous
\* render saw, every function useMatomo returns is the function the previous
\* render returned.
C10_StableFunctions ==
  (renders >= 2 /\ hooks.inst = hooks.prevInst) =>
    /\ \A f \in FnNames : hooks.cb[f] = hooks.cbPrev[f]
    /\ \A f \in MemoNames : hooks.mm[f] = hooks.mmPrev[f]

\* a third render with the instance of the second, which was not the
\* instance of the first
C10_Witness ==
  /\ renders = 3
  /\ hooks.inst = hooks.prevInst
  /\ hooks.cb["trackAction"] = [inst |-> hooks.inst, id |-> 2]
  /\ hooks.cb["trackLink"].inst # hooks.inst
  /\ hooks.mm["trackAction"] = [inst |-> hooks.inst, id |-> 2]

\* what the tracker would hand to fetch for method(args)
DirectFetch(i, method, args) == FetchObj(trackers[i], Invoke(method, args).data.o)

\* C11: trackAppStart({ userInfo }) called through the hook dispatches the
\* request that trackAppStart({ userInfo }) on the tracker dispatches: action
\* name 'App / start' and the fields of the userInfo the hook's function was
\* given.
C11_HookAppStartAsDirect ==
  (/\ lastCall.method = "trackAppStart"
   /\ lastCall.via \in {"useCallback", "useMemo"}
   /\ lastCall.req \in 1..Len(requests)) =>
    LET q == requests[lastCall.req]
        direct == DirectFetch(q.inst, "trackAppStart", lastCall.passed)
    IN  /\ q.headers = direct.headers
        /\ q.body = direct.body
        /\ BodyValue(q, "action_name") = "App / start"

\* the call method(args) has what the method requires: the argument object
\* with the required fields, for track a data object
RequiredPresent(method, args) ==
  CASE method = "track" -> args.ui.t = "object"
    [] method = "trackAppStart" -> TRUE
    [] OTHER -> args.given /\ ~MissingRequired(method, args)

\* a step hands at most one request to fetch, and only for a call; it hands
\* exactly one for a call on an enabled tracker that has what it requires;
\* the requests handed over before stay as they were sent, and a step of the
\* transport, whatever the outcome, hands over none
DispatchStep ==
  /\ Len(requests') \in {Len(requests), Len(requests) + 1}
  /\ \A r \in 1..Len(requests) :
       Sent(requests'[r]) = Sent(requests[r]) /\ requests'[r].call = requests[r].call
  /\ Len(requests') > Len(requests) =>
       /\ lastCall' # lastCall
       /\ lastCall'.req = Len(requests')
       /\ requests'[Len(requests')].call.method = lastCall'.method
       /\ requests'[Len(requests')].call.args = lastCall'.args
       /\ requests'[Len(requests')].fetched = Pending
  /\ (/\ lastCall' # lastCall
      /\ Enabled(lastCall'.inst)
      /\ RequiredPresent(lastCall'.method, lastCall'.args)) =>
       Len(requests') = Len(requests) + 1
  /\ lastCall' = lastCall => Len(requests') = Len(requests)

\* C12: each tracking call on an enabled tracker issues at most one request,
\* and exactly one when its required fields are present; requests are not
\* batched, queued or coalesced, and a request that failed in the transport
\* or was answered with a status that is not ok is not sent again.
C12_OneRequestPerCall == [][DispatchStep]_vars

\* two calls made two requests, the first of which failed in the transport
C12_Witness ==
  /\ Len(requests) = 2
  /\ requests[1].fetched.state = "rejected"
  /\ requests[2].call.method = "trackEvent"
  /\ lastCall.req = 2

\* C13: once the instance of the context has changed, every function the
\* next render of useMatomo returns forwards to the new instance: each
\* function a render returned calls the instance that render read from the
\* context.
C13_FunctionsFollowInstance ==
  renders >= 1 =>
    /\ \A f \in FnNames : hooks.cb[f].inst = hooks.inst
    /\ \A f \in FnNames : hooks.mm[f].inst = hooks.inst

\* C14: the disabled flag is checked before the required fields: on a
\* disabled tracker a tracking call that lacks its required field does
\* nothing and raises no validation error.
C14_DisabledCheckedFirst ==
  (/\ lastCall.method \in FnNames
   /\ Disabled(lastCall.inst)
   /\ lastCall.args.given
   /\ MissingRequired(lastCall.method, lastCall.args)) =>
    (~lastCall.threw /\ lastCall.req = 0)

\* the data is absent or an empty mapping
EmptyOrAbsent(data) == data.t # "object" \/ data.o = <<>>

\* C15: track(fields) on an enabled tracker with fields absent (undefined or
\* null) or an empty mapping is a no-op: no request is issued and the result
\* is undefined, not an error.
C15_TrackOfNothingIsNoOp ==
  /\ (/\ lastCall.method = "track"
      /\ Enabled(lastCall.inst)
      /\ EmptyOrAbsent(lastCall.args.ui)) =>
       (~lastCall.threw /\ lastCall.ret = "undefined" /\ lastCall.req = 0)
  /\ \A r \in 1..Len(requests) :
       requests[r].call.method = "track" => ~EmptyOrAbsent(requests[r].call.args.ui)

\* the body parameters that tell what kind of call a request reports
Discriminators(method) ==
  CASE method \in {"trackAppStart", "trackScreenView", "trackAction"} -> {"action_name"}
    [] method = "trackEvent" -> {"e_c", "e_a"}
    [] method = "trackSiteSearch" -> {"search"}
    [] method = "trackLink" -> {"link"}
    [] method = "trackDownload" -> {"download"}
    [] OTHER -> {}

\* C16: every request dispatched by a tracking method carries a non-empty
\* discriminator for its kind of call, whatever userInfo the caller supplies,
\* a userInfo with a key of the same name included.
C16_DiscriminatorNeverEmpty ==
  \A r \in 1..Len(requests) :
    \A k \in Discriminators(requests[r].call.method) :
      BodyHas(requests[r], k) /\ BodyValue(requests[r], k) # ""

\* a step changes a tracker that has been constructed only when it is a run
\* of initialize, and a step that dispatches a request leaves the trackers
\* alone and sends the endpoint, the site and the user the tracker holds,
\* unless the call's own userInfo names an idsite or a uid
ConfigStep ==
  /\ \A i \in Instances :
       (Live(i) /\ trackers'[i] # trackers[i]) =>
         /\ lastCall'.inst = i
         /\ lastCall'.method = "initialize"
         /\ requests' = requests
  /\ Len(requests') > Len(requests) =>
       LET q == requests'[Len(requests')]
           this == trackers[q.inst]
       IN  /\ trackers' = trackers
           /\ q.url = this.trackerUrl
           /\ ~Has(CallUserInfo(q), "idsite") => BodyValue(q, "idsite") = ToStr(this.siteId)
           /\ ~Has(CallUserInfo(q), "uid") =>
                (IF Truthy(this.userId)
                   THEN BodyValue(q, "uid") = ToStr(this.userId)
                   ELSE ~BodyHas(q, "uid"))

\* C17: after construction no tracking call, whether it succeeds, fails
\* validation or fails in the transport, changes trackerUrl, siteId, userId,
\* disabled or log (only initialize does); a uid or idsite of a userInfo
\* shows in the request of the call that carries it and in no other.
C17_ConfigurationIsFixed == [][ConfigStep]_vars

\* after a request that overrode uid and failed in the transport, a later
\* request carries the tracker's own uid
C17_Witness ==
  /\ Len(requests) = 2
  /\ BodyValue(requests[1], "uid") = "u9"
  /\ requests[1].fetched.state = "rejected"
  /\ CallUserInfo(requests[2]) = <<>>
  /\ BodyValue(requests[2], "uid") = "u1"
  /\ trackers[requests[2].inst].userId = Str("u1")

\* the latest call passed the object of the call before it again, and both
\* calls dispatched a request
Repeated(method) ==
  /\ lastCall.method = method
  /\ lastCall.again
  /\ lastCall.req \in 2..Len(requests)

\* the headers and the body of request r
HeadersAndBody(r) == <<requests[r].headers, requests[r].body>>

\* C18: a tracking method that takes a userInfo leaves the caller's userInfo
\* object as it was, its lang key included, so a second call with the same
\* userInfo object sends the Accept-Language header and the body of the
\* first.
C18_UserInfoUntouched ==
  \A m \in FnNames :
    /\ lastCall.method = m => lastCall.argAfter = lastCall.passed.ui
    /\ Repeated(m) =>
         /\ HeadersAndBody(lastCall.req) = HeadersAndBody(lastCall.req - 1)
         /\ requests[lastCall.req].headers.AcceptLanguage =
              Get(UserInfoOf(lastCall.args), "lang")

\* trackEvent was called twice with one userInfo object that names a language
C18_Witness ==
  /\ Repeated("trackEvent")
  /\ Get(lastCall.argAfter.o, "lang") = Str("en")
  /\ requests[lastCall.req - 1].headers.AcceptLanguage = Str("en")
  /\ requests[lastCall.req].headers.AcceptLanguage = Str("en")

\* C19: two successive calls of track(data) with the same data object on an
\* enabled tracker dispatch the same request (URL, headers with
\* Accept-Language, body), and track leaves the data object as it was given.
C19_TrackTwiceSameRequest ==
  /\ (lastCall.method = "track" /\ ~lastCall.again) => lastCall.argAfter = lastCall.passed.ui
  /\ Repeated("track") => Sent(requests[lastCall.req]) = Sent(requests[lastCall.req - 1])

\* the optional parameters of a method and the body parameter of each
OptionalFields(method) ==
  CASE method = "trackEvent" ->
         {<<"name", "e_n">>, <<"value", "e_v">>, <<"campaign", "mtm_campaign">>}
    [] method = "trackSiteSearch" -> {<<"category", "search_cat">>, <<"count", "search_count">>}
    [] OTHER -> {}

\* C20: an optional field the caller does not supply is absent from the body:
\* trackEvent without name, value or campaign sends no e_n, e_v or
\* mtm_campaign, and trackSiteSearch without category or count sends no
\* search_cat or search_count (unless the userInfo itself has that key).
C20_AbsentOptionalsNotSent ==
  \A r \in 1..Len(requests) :
    \A f \in OptionalFields(requests[r].call.method) :
      (~Has(requests[r].call.args.p, f[1]) /\ ~Has(CallUserInfo(requests[r]), f[2])) =>
        ~BodyHas(requests[r], f[2])

====
